---- MODULE Spec2Model ----
(***************************************************************************)
(* Model of src/python/class.py: the class Person (fields name and age,    *)
(* methods greet, birthday, capitalize_name) and the script under          *)
(* `if __name__ == "__main__":`.                                           *)
(*                                                                         *)
(* A Python str is a sequence of Unicode code points, so a string is a     *)
(* sequence of integers here: "alice" is <<97, 108, 105, 99, 101>>.        *)
(* A Python value carries its type: a value is a record with the tag t     *)
(* ("str", "int", "NoneType"), the code points s of a str and the integer  *)
(* i of an int.                                                            *)
(***************************************************************************)
EXTENDS Integers, Sequences, FiniteSets, TLC

(* ---------------------------- bounds ---------------------------------- *)
MaxNameLen == 2        \* longest name argument a caller passes
MaxAge == 10           \* a caller passes an age in -MaxAge .. MaxAge
MaxBirthdays == 3      \* birthday calls per run of a caller
MaxCapitalize == 2     \* capitalize_name calls per run of a caller

(* ---------------------------- values ---------------------------------- *)
StrVal(s) == [t |-> "str", s |-> s, i |-> 0]
IntVal(i) == [t |-> "int", s |-> <<>>, i |-> i]
NoneVal == [t |-> "NoneType", s |-> <<>>, i |-> 0]
\* an attribute that does not exist yet (self before __init__ has run)
Unset == [t |-> "unset", s |-> <<>>, i |-> 0]

(* ----------------------- str(int): decimal text ----------------------- *)
RECURSIVE Digits(_)
Digits(n) ==
    IF n < 10 THEN <<48 + n>> ELSE Digits(n \div 10) \o <<48 + (n % 10)>>

Decimal(n) == IF n < 0 THEN <<45>> \o Digits(0 - n) ELSE Digits(n)

\* "None"
NoneText == <<78, 111, 110, 101>>

\* the text an f-string replacement field {v} produces: format(v, "")
Format(v) ==
    CASE v.t = "str" -> v.s
      [] v.t = "int" -> Decimal(v.i)
      [] OTHER -> NoneText

(* ------------------- str.capitalize(): case mapping ------------------- *)
(* The code points the callers of this model use: a (97), A (65), 1 (49)   *)
(* and U+0149 (329, LATIN SMALL LETTER N PRECEDED BY APOSTROPHE), whose     *)
(* title-case mapping is the two code points U+02BC (700) and N (78).      *)
IsAsciiUpper(c) == c \in 65..90
IsAsciiLower(c) == c \in 97..122

\* the full lower-case mapping of one code point
Lower(c) == IF IsAsciiUpper(c) THEN <<c + 32>> ELSE <<c>>

\* a case mapping that toggles the case of an ASCII letter (swapcase)
TitleSwap(c) ==
    IF IsAsciiLower(c) THEN <<c - 32>>
    ELSE IF IsAsciiUpper(c) THEN <<c + 32>>
    ELSE IF c = 329 THEN <<700, 78>>
    ELSE <<c>>

\* the full title-case mapping of one code point
Title(c) ==
    IF IsAsciiLower(c) THEN <<c - 32>>
    ELSE IF c = 329 THEN <<700, 78>>
    ELSE <<c>>

RECURSIVE LowerAll(_)
LowerAll(s) == IF s = <<>> THEN <<>> ELSE Lower(Head(s)) \o LowerAll(Tail(s))

\* a capitalize that upper-cases the first character and keeps the rest
CapitalizeFirstOnly(s) == IF s = <<>> THEN <<>> ELSE Title(Head(s)) \o Tail(s)

\* str.capitalize(): first character title-cased, the rest lower-cased
Capitalize(s) ==
    IF s = <<>> THEN <<>> ELSE Title(Head(s)) \o LowerAll(Tail(s))

(* ------------------------- string literals ---------------------------- *)
\* "Hello, my name is "
HelloText ==
    <<72, 101, 108, 108, 111, 44, 32, 109, 121, 32, 110, 97, 109, 101, 32,
      105, 115, 32>>
\* " and I'm "
AndText == <<32, 97, 110, 100, 32, 73, 39, 109, 32>>
\* " years old."
YearsText == <<32, 121, 101, 97, 114, 115, 32, 111, 108, 100, 46>>
\* "Happy Birthday! You are now "
BirthdayText ==
    <<72, 97, 112, 112, 121, 32, 66, 105, 114, 116, 104, 100, 97, 121, 33,
      32, 89, 111, 117, 32, 97, 114, 101, 32, 110, 111, 119, 32>>
\* "Name capitalized: "
CapitalizedText ==
    <<78, 97, 109, 101, 32, 99, 97, 112, 105, 116, 97, 108, 105, 122, 101,
      100, 58, 32>>

(* --------------------------- class Person ----------------------------- *)
(* self is the record [name, age].  A method is an operator from self to   *)
(* the record [self: self after the call, ret: the value returned,         *)
(* exc: the exception raised, "none" when the call returns].               *)

\* a constructor that normalises its arguments
PersonNormalising(n, a) ==
    [name |-> IF n.t = "str" THEN StrVal(Capitalize(n.s)) ELSE n,
     age |-> IF a.t = "int" /\ a.i < 0 THEN IntVal(0) ELSE a]

\* Person(name, age): __init__
Person(n, a) == [name |-> n, age |-> a]

\* a greet that also normalises the stored name
greetNormalising(self) ==
    LET s2 == [self EXCEPT !.name =
                   IF @.t = "str" THEN StrVal(Capitalize(@.s)) ELSE @]
    IN [self |-> s2,
        ret |-> StrVal(HelloText \o Format(s2.name) \o AndText
                       \o Format(s2.age) \o YearsText),
        exc |-> "none"]

greet(self) ==
    [self |-> self,
     ret |-> StrVal(HelloText \o Format(self.name) \o AndText
                    \o Format(self.age) \o YearsText),
     exc |-> "none"]

\* a birthday that builds its message before it increments
birthdayStaleMessage(self) ==
    IF self.age.t = "int"
    THEN [self |-> [self EXCEPT !.age = IntVal(@.i + 1)],
          ret |-> StrVal(BirthdayText \o Format(self.age) \o YearsText),
          exc |-> "none"]
    ELSE [self |-> self, ret |-> NoneVal, exc |-> "TypeError"]

\* a birthday that adds two years
birthdayDouble(self) ==
    IF self.age.t = "int"
    THEN LET s2 == [self EXCEPT !.age = IntVal(@.i + 2)]
         IN [self |-> s2,
             ret |-> StrVal(BirthdayText \o Format(s2.age) \o YearsText),
             exc |-> "none"]
    ELSE [self |-> self, ret |-> NoneVal, exc |-> "TypeError"]

\* self.age += 1 raises TypeError unless age is a number
birthday(self) ==
    IF self.age.t = "int"
    THEN LET s2 == [self EXCEPT !.age = IntVal(@.i + 1)]
         IN [self |-> s2,
             ret |-> StrVal(BirthdayText \o Format(s2.age) \o YearsText),
             exc |-> "none"]
    ELSE [self |-> self, ret |-> NoneVal, exc |-> "TypeError"]

\* a capitalize_name that indexes the first character of the name
capitalize_nameIndexing(self) ==
    IF self.name.t = "str"
    THEN IF self.name.s = <<>>
         THEN [self |-> self, ret |-> NoneVal, exc |-> "IndexError"]
         ELSE LET s2 == [self EXCEPT !.name = StrVal(Capitalize(@.s))]
              IN [self |-> s2,
                  ret |-> StrVal(CapitalizedText \o Format(s2.name)),
                  exc |-> "none"]
    ELSE [self |-> self, ret |-> NoneVal, exc |-> "AttributeError"]

\* a capitalize_name that reports the age along with the name
capitalize_nameWithAge(self) ==
    IF self.name.t = "str"
    THEN LET s2 == [self EXCEPT !.name = StrVal(Capitalize(@.s))]
         IN [self |-> s2,
             ret |-> StrVal(CapitalizedText \o Format(s2.name)
                            \o Format(s2.age)),
             exc |-> "none"]
    ELSE [self |-> self, ret |-> NoneVal, exc |-> "AttributeError"]

\* self.name.capitalize() raises AttributeError unless name is a str
capitalize_name(self) ==
    IF self.name.t = "str"
    THEN LET s2 == [self EXCEPT !.name = StrVal(Capitalize(@.s))]
         IN [self |-> s2,
             ret |-> StrVal(CapitalizedText \o Format(s2.name)),
             exc |-> "none"]
    ELSE [self |-> self, ret |-> NoneVal, exc |-> "AttributeError"]

(* ------------------------------ state --------------------------------- *)
VARIABLES
    mode,      \* "main": the file is run as a script; "import": it is imported
    pc,        \* position of the script, or of the importing caller
    name,      \* self.name
    age,       \* self.age
    argName,   \* the name argument of the constructor call
    argAge,    \* the age argument of the constructor call
    lastOp,    \* the operation called last
    prevOp,    \* the operation called before that one
    ret,       \* the value the last call returned
    exc,       \* the exception the last call raised, "none" if it returned
    out,       \* the lines printed to standard output
    nb,        \* number of birthday calls so far
    nc         \* number of capitalize_name calls so far

vars ==
    <<mode, pc, name, age, argName, argAge, lastOp, prevOp, ret, exc, out, nb,
      nc>>

\* the object the caller holds
person == [name |-> name, age |-> age]

(* --------------------- arguments a caller passes ---------------------- *)
NameChars == {97, 65, 49, 329}

RECURSIVE SeqsUpTo(_, _)
SeqsUpTo(S, n) ==
    IF n = 0 THEN {<<>>}
    ELSE LET shorter == SeqsUpTo(S, n - 1)
         IN shorter \cup {Append(s, c) : s \in shorter, c \in S}

\* every str up to MaxNameLen, and None (not a str)
NameArgs == {StrVal(s) : s \in SeqsUpTo(NameChars, MaxNameLen)} \cup {NoneVal}

\* every int in range, and None and "30" (not an int)
AgeArgs ==
    {IntVal(i) : i \in (0 - MaxAge)..MaxAge} \cup {NoneVal, StrVal(<<51, 48>>)}

\* "alice"
MainName == <<97, 108, 105, 99, 101>>
\* "Alice"
MainNameUpper == <<65, 108, 105, 99, 101>>

Init ==
    /\ mode \in {"main", "import"}
    /\ pc = IF mode = "main" THEN "line19" ELSE "start"
    /\ name = Unset
    /\ age = Unset
    /\ argName = Unset
    /\ argAge = Unset
    /\ lastOp = "none"
    /\ prevOp = "none"
    /\ ret = NoneVal
    /\ exc = "none"
    /\ out = <<>>
    /\ nb = 0
    /\ nc = 0

(* --------------------- calls of an importing caller ------------------- *)
\* the effect of a method call with result r on the object and the caller
Returned(op, r) ==
    /\ name' = r.self.name
    /\ age' = r.self.age
    /\ lastOp' = op
    /\ prevOp' = lastOp
    /\ ret' = r.ret
    /\ exc' = r.exc

Construct ==
    /\ mode = "import"
    /\ pc = "start"
    /\ \E n \in NameArgs, a \in AgeArgs :
          /\ argName' = n
          /\ argAge' = a
          /\ name' = Person(n, a).name
          /\ age' = Person(n, a).age
    /\ lastOp' = "construct"
    /\ prevOp' = lastOp
    /\ ret' = NoneVal
    /\ exc' = "none"
    /\ pc' = "ready"
    /\ UNCHANGED <<mode, out, nb, nc>>

\* a caller that greets with the construction-time values
CallGreetStale ==
    /\ mode = "import"
    /\ pc = "ready"
    /\ Returned("greet", [greet(Person(argName, argAge)) EXCEPT !.self = person])
    /\ UNCHANGED <<mode, pc, argName, argAge, out, nb, nc>>

CallGreet ==
    /\ mode = "import"
    /\ pc = "ready"
    /\ Returned("greet", greet(person))
    /\ UNCHANGED <<mode, pc, argName, argAge, out, nb, nc>>

CallBirthday ==
    /\ mode = "import"
    /\ pc = "ready"
    /\ nb < MaxBirthdays
    /\ Returned("birthday", birthday(person))
    /\ nb' = nb + 1
    /\ UNCHANGED <<mode, pc, argName, argAge, out, nc>>

CallCapitalizeName ==
    /\ mode = "import"
    /\ pc = "ready"
    /\ nc < MaxCapitalize
    /\ Returned("capitalize_name", capitalize_name(person))
    /\ nc' = nc + 1
    /\ UNCHANGED <<mode, pc, argName, argAge, out, nb>>

(* ------------------------ the script (main) --------------------------- *)
\* print(r.ret) when the call returned; an uncaught exception ends the script
Printed(r, next) ==
    IF r.exc = "none"
    THEN /\ out' = Append(out, r.ret.s)
         /\ pc' = next
    ELSE /\ out' = out
         /\ pc' = "crashed"

\* a script that constructs Person("Alice", 30)
Main19Upper ==
    /\ mode = "main"
    /\ pc = "line19"
    /\ argName' = StrVal(MainNameUpper)
    /\ argAge' = IntVal(30)
    /\ name' = Person(StrVal(MainNameUpper), IntVal(30)).name
    /\ age' = Person(StrVal(MainNameUpper), IntVal(30)).age
    /\ lastOp' = "construct"
    /\ prevOp' = lastOp
    /\ ret' = NoneVal
    /\ exc' = "none"
    /\ pc' = "line20"
    /\ UNCHANGED <<mode, out, nb, nc>>

\* person = Person("alice", 30)
Main19 ==
    /\ mode = "main"
    /\ pc = "line19"
    /\ argName' = StrVal(MainName)
    /\ argAge' = IntVal(30)
    /\ name' = Person(StrVal(MainName), IntVal(30)).name
    /\ age' = Person(StrVal(MainName), IntVal(30)).age
    /\ lastOp' = "construct"
    /\ prevOp' = lastOp
    /\ ret' = NoneVal
    /\ exc' = "none"
    /\ pc' = "line20"
    /\ UNCHANGED <<mode, out, nb, nc>>

\* print(person.greet())
Main20 ==
    /\ mode = "main"
    /\ pc = "line20"
    /\ Returned("greet", greet(person))
    /\ Printed(greet(person), "line21")
    /\ UNCHANGED <<mode, argName, argAge, nb, nc>>

\* print(person.birthday())
Main21 ==
    /\ mode = "main"
    /\ pc = "line21"
    /\ Returned("birthday", birthday(person))
    /\ Printed(birthday(person), "line22")
    /\ nb' = nb + 1
    /\ UNCHANGED <<mode, argName, argAge, nc>>

\* print(person.capitalize_name())
Main22 ==
    /\ mode = "main"
    /\ pc = "line22"
    /\ Returned("capitalize_name", capitalize_name(person))
    /\ Printed(capitalize_name(person), "done")
    /\ nc' = nc + 1
    /\ UNCHANGED <<mode, argName, argAge, nb>>

Next ==
    \/ Construct
    \/ CallGreet
    \/ CallBirthday
    \/ CallCapitalizeName
    \/ Main19
    \/ Main20
    \/ Main21
    \/ Main22

Spec == Init /\ [][Next]_vars

TypeOK ==
    /\ mode \in {"main", "import"}
    /\ pc \in {"start", "ready", "line19", "line20", "line21", "line22",
               "done", "crashed"}
    /\ lastOp \in {"none", "construct", "greet", "birthday", "capitalize_name"}
    /\ prevOp \in {"none", "construct", "greet", "birthday", "capitalize_name"}
    /\ exc \in {"none", "TypeError", "AttributeError"}
    /\ nb \in 0..MaxBirthdays
    /\ nc \in 0..MaxCapitalize

(* ======================= properties of the claims ===================== *)
(* The sentences the specification quotes, written out independently of    *)
(* the literals of the class above.                                        *)

\* "Hello, my name is "
SaysHello ==
    <<72, 101, 108, 108, 111, 44, 32, 109, 121, 32, 110, 97, 109, 101, 32,
      105, 115, 32>>
\* " and I'm "
SaysAnd == <<32, 97, 110, 100, 32, 73, 39, 109, 32>>
\* " years old."
SaysYears == <<32, 121, 101, 97, 114, 115, 32, 111, 108, 100, 46>>
\* "Happy Birthday! You are now "
SaysBirthday ==
    <<72, 97, 112, 112, 121, 32, 66, 105, 114, 116, 104, 100, 97, 121, 33,
      32, 89, 111, 117, 32, 97, 114, 101, 32, 110, 111, 119, 32>>
\* "Name capitalized: "
SaysCapitalized ==
    <<78, 97, 109, 101, 32, 99, 97, 112, 105, 116, 97, 108, 105, 122, 101,
      100, 58, 32>>

\* the integer a decimal numeral denotes (read back, not printed)
RECURSIVE NumeralValue(_)
NumeralValue(d) ==
    IF Len(d) = 1 THEN d[1] - 48
    ELSE 10 * NumeralValue(SubSeq(d, 1, Len(d) - 1)) + (d[Len(d)] - 48)

\* d is the canonical numeral of n: digits only, no leading zero, "-" if n < 0
IsNumeralOf(d, n) ==
    LET digits == IF n < 0 THEN Tail(d) ELSE d
    IN /\ Len(d) >= 1
       /\ (n < 0) => (d[1] = 45)
       /\ Len(digits) >= 1
       /\ \A k \in 1..Len(digits) : digits[k] \in 48..57
       /\ (Len(digits) > 1) => (digits[1] # 48)
       /\ NumeralValue(digits) = (IF n < 0 THEN 0 - n ELSE n)

\* text = before \o <numeral of n> \o after
IsSentenceAbout(text, before, n, after) ==
    LET from == Len(before) + 1
        to == Len(text) - Len(after)
    IN /\ to >= from
       /\ SubSeq(text, 1, Len(before)) = before
       /\ SubSeq(text, to + 1, Len(text)) = after
       /\ IsNumeralOf(SubSeq(text, from, to), n)

Constructed == pc \notin {"start", "line19"}
WellTyped == name.t = "str" /\ age.t = "int"
IsAscii(s) == \A k \in 1..Len(s) : s[k] \in 0..127
IsUppercase(c) == c \in 65..90
IsLowercase(c) == c \in (97..122) \cup {329}

(* C1: whenever greet was the last call on a Person holding a str name and *)
(* an int age, the value it returned is exactly "Hello, my name is <name>  *)
(* and I'm <age> years old." for the name and age the fields hold now,     *)
(* whatever birthday and capitalize_name calls came before.                *)
GreetReportsCurrentFields ==
    (lastOp = "greet" /\ WellTyped) =>
        /\ ret.t = "str"
        /\ exc = "none"
        /\ IsSentenceAbout(ret.s, SaysHello \o name.s \o SaysAnd, age.i,
                           SaysYears)

GreetAfterMutationsSeen ==
    /\ lastOp = "greet"
    /\ WellTyped
    /\ nb > 0
    /\ nc > 0
    /\ name # argName
    /\ age # argAge

(* C2: for an int initial age a, after n birthday calls (greet and         *)
(* capitalize_name calls interleaved at will) age = a + n, and the last    *)
(* birthday call, the n-th, returned "Happy Birthday! You are now <a+n>    *)
(* years old.": the age after the increment.                               *)
BirthdayCountsAndReports ==
    (Constructed /\ argAge.t = "int") =>
        /\ age.t = "int"
        /\ age.i = argAge.i + nb
        /\ (lastOp = "birthday") =>
              /\ ret.t = "str"
              /\ IsSentenceAbout(ret.s, SaysBirthday, argAge.i + nb, SaysYears)

SecondBirthdaySeen ==
    /\ lastOp = "birthday"
    /\ nb = 2
    /\ nc > 0
    /\ argAge = IntVal(8)
    /\ age = IntVal(10)

(* C3 as stated: after capitalize_name returned, the first character of    *)
(* the name is uppercase and every later character is lowercase, for any   *)
(* string, and the call returned "Name capitalized: <new name>".           *)
CapitalizedShapeAnyString ==
    (lastOp = "capitalize_name" /\ exc = "none") =>
        /\ \A k \in 1..Len(name.s) :
              IF k = 1 THEN IsUppercase(name.s[k]) ELSE IsLowercase(name.s[k])
        /\ ret.s = SaysCapitalized \o name.s

\* the ASCII letter c in upper case, any other code point unchanged
AsciiUpper(c) == IF c \in 97..122 THEN c - 32 ELSE c
\* the ASCII letter c in lower case, any other code point unchanged
AsciiLower(c) == IF c \in 65..90 THEN c + 32 ELSE c

(* C3 amended: for a name of ASCII characters, after capitalize_name the   *)
(* name has the length it had, its first character is the upper-case form  *)
(* of the original one if that is a letter and every later letter is in    *)
(* lower case, characters that are not letters being unchanged; so the     *)
(* first character is never a lowercase letter and no later character is   *)
(* an uppercase letter.  The call returned "Name capitalized: <new name>". *)
CapitalizedShapeAscii ==
    (lastOp = "capitalize_name" /\ argName.t = "str" /\ IsAscii(argName.s)) =>
        /\ exc = "none"
        /\ name.t = "str"
        /\ name.s = [k \in 1..Len(argName.s) |->
                        IF k = 1 THEN AsciiUpper(argName.s[k])
                        ELSE AsciiLower(argName.s[k])]
        /\ \A k \in 1..Len(name.s) :
              IF k = 1 THEN ~IsLowercase(name.s[k]) ELSE ~IsUppercase(name.s[k])
        /\ ret = StrVal(SaysCapitalized \o name.s)

CapitalizedMixedCaseSeen ==
    /\ lastOp = "capitalize_name"
    /\ argName = StrVal(<<97, 65>>)
    /\ name = StrVal(<<65, 97>>)

(* C4: once the Person is constructed, a step either leaves age as it is   *)
(* or is a birthday call that adds exactly 1; a birthday call on an int    *)
(* age always adds 1.                                                      *)
AgeChangesOnlyByBirthday ==
    [][Constructed =>
          /\ \/ age' = age
             \/ /\ lastOp' = "birthday"
                /\ nb' = nb + 1
                /\ age.t = "int"
                /\ age' = IntVal(age.i + 1)
          /\ (nb' # nb /\ age.t = "int") => (age' = IntVal(age.i + 1))]_vars

AllOperationsSeen ==
    /\ nb > 0
    /\ nc > 0
    /\ lastOp = "greet"
    /\ age.t = "int"
    /\ age.i = argAge.i + nb

(* C5: a greet call leaves the name field and the age field unchanged.     *)
GreetHasNoSideEffects ==
    [][(lastOp' = "greet") => (name' = name /\ age' = age)]_vars

GreetTwiceSeen ==
    /\ lastOp = "greet"
    /\ prevOp = "greet"
    /\ WellTyped
    /\ name.s # <<>>
    /\ IsLowercase(name.s[1])

\* "Hello, my name is alice and I'm 30 years old."
MainLine1 ==
    <<72, 101, 108, 108, 111, 44, 32, 109, 121, 32, 110, 97, 109, 101, 32,
      105, 115, 32, 97, 108, 105, 99, 101, 32, 97, 110, 100, 32, 73, 39, 109,
      32, 51, 48, 32, 121, 101, 97, 114, 115, 32, 111, 108, 100, 46>>
\* "Happy Birthday! You are now 31 years old."
MainLine2 ==
    <<72, 97, 112, 112, 121, 32, 66, 105, 114, 116, 104, 100, 97, 121, 33,
      32, 89, 111, 117, 32, 97, 114, 101, 32, 110, 111, 119, 32, 51, 49, 32,
      121, 101, 97, 114, 115, 32, 111, 108, 100, 46>>
\* "Name capitalized: Alice"
MainLine3 ==
    <<78, 97, 109, 101, 32, 99, 97, 112, 105, 116, 97, 108, 105, 122, 101,
      100, 58, 32, 65, 108, 105, 99, 101>>

(* C6: run as a script, the program prints the three lines in the order    *)
(* greet, birthday, capitalize_name (what is printed is always a prefix    *)
(* of them, one line per statement executed), never stops on an exception, *)
(* and ends with name = "Alice" and age = 31.                              *)
MainPrintsThreeLines ==
    (mode = "main") =>
        /\ pc # "crashed"
        /\ out = SubSeq(<<MainLine1, MainLine2, MainLine3>>, 1, Len(out))
        /\ Len(out) = (CASE pc = "line21" -> 1
                         [] pc = "line22" -> 2
                         [] pc = "done" -> 3
                         [] OTHER -> 0)
        /\ (pc # "line19") => (argName = StrVal(<<97, 108, 105, 99, 101>>)
                               /\ argAge = IntVal(30))
        /\ (pc = "done") => (name = StrVal(<<65, 108, 105, 99, 101>>)
                             /\ age = IntVal(31))

MainFinished == mode = "main" /\ pc = "done" /\ Len(out) = 3

(* C7: on a Person constructed with a str name and an int age (the empty   *)
(* name, zero and negative ages included) no call raises: every method     *)
(* call returns a str, the fields keep their types, the script never       *)
(* stops on an exception.                                                  *)
NoOperationFails ==
    (argName.t = "str" /\ argAge.t = "int") =>
        /\ exc = "none"
        /\ pc # "crashed"
        /\ WellTyped
        /\ (lastOp \in {"greet", "birthday", "capitalize_name"}) =>
              (ret.t = "str")

EmptyNameNegativeAgeSeen ==
    /\ argName = StrVal(<<>>)
    /\ argAge.t = "int"
    /\ argAge.i < 0
    /\ lastOp = "capitalize_name"
    /\ prevOp = "birthday"
    /\ exc = "none"

(* C8: right after construction the name field is the name argument and    *)
(* the age field is the age argument, unchanged: no casing is applied, a   *)
(* negative age is kept.                                                   *)
ConstructStoresVerbatim ==
    (lastOp = "construct") => (name = argName /\ age = argAge /\ exc = "none")

LowercaseNegativeConstructed ==
    /\ lastOp = "construct"
    /\ name = StrVal(<<97, 65>>)
    /\ age = IntVal(0 - 1)

(* C9 as stated: a capitalize_name call that follows a capitalize_name     *)
(* call leaves name and age as they are and returns the same value.        *)
CapitalizeIdempotentAnyString ==
    [][(lastOp = "capitalize_name" /\ lastOp' = "capitalize_name") =>
          (name' = name /\ age' = age /\ ret' = ret /\ exc' = exc)]_vars

(* C9 amended: on a Person constructed with a name of ASCII characters, a  *)
(* capitalize_name call that follows a capitalize_name call leaves name    *)
(* and age as they are and returns the same message.                       *)
CapitalizeIdempotentAscii ==
    [][(/\ lastOp = "capitalize_name"
        /\ lastOp' = "capitalize_name"
        /\ argName.t = "str"
        /\ IsAscii(argName.s)) =>
          (name' = name /\ age' = age /\ ret' = ret /\ exc' = exc)]_vars

CapitalizeTwiceSeen ==
    /\ lastOp = "capitalize_name"
    /\ prevOp = "capitalize_name"
    /\ nc = 2
    /\ argName = StrVal(<<97, 65>>)
    /\ name = StrVal(<<65, 97>>)

(* C10: on a Person with a str name and an int age, birthday followed by   *)
(* capitalize_name ends in the same name and age, and returns the same two *)
(* messages, as capitalize_name followed by birthday; and a birthday call  *)
(* leaves name unchanged, a capitalize_name call leaves age unchanged.     *)
BirthdayCapitalizeCommute ==
    /\ [](WellTyped =>
            LET b == birthday(person)
                c == capitalize_name(person)
                bc == capitalize_name(b.self)
                cb == birthday(c.self)
            IN /\ bc.self = cb.self
               /\ b.ret = cb.ret
               /\ c.ret = bc.ret
               /\ bc.exc = "none"
               /\ cb.exc = "none")
    /\ [][/\ (lastOp' = "birthday") => (name' = name)
          /\ (lastOp' = "capitalize_name") => (age' = age)]_vars

BothOrdersSeen ==
    /\ WellTyped
    /\ nb > 0
    /\ nc > 0
    /\ lastOp = "capitalize_name"
    /\ prevOp = "birthday"
    /\ name # argName
    /\ age # argAge
====
